---------------------------- MODULE Spec2Model ----------------------------
(***************************************************************************)
(* State-machine model of WebRTCGAS.Client (src/src/webrtc-gas.js): the    *)
(* signaling client that registers with a request/response gateway, polls  *)
(* it, exchanges offer/answer/ICE frames and recovers from desynchronised  *)
(* sessions.                                                               *)
(*                                                                         *)
(* JavaScript runs one callback at a time.  Every `await` on a gateway     *)
(* request (fetch) or on a Transport Engine operation (createOffer,        *)
(* setLocalDescription, setRemoteDescription, addIceCandidate, createAnswer*)
(* and the ICE-gathering wait) is a suspension point: the code between two *)
(* such points is one atomic action.  An `await` on a promise that is      *)
(* already settled (`await this._createPeerConnection()`,                  *)
(* `await this._handleRecovery()`) resumes in the same microtask checkpoint*)
(* and is folded into the surrounding action.  Event listeners registered  *)
(* with on() are passive observers (they do not call back into the client).*)
(*                                                                         *)
(* Consecutive awaits on the Transport Engine between which the client     *)
(* writes nothing (createOffer / setLocalDescription / gathering wait; the *)
(* addIceCandidate loop / createAnswer / setLocalDescription / gathering   *)
(* wait) form one stage: the stage ends when the last of them resolves, or *)
(* earlier when one rejects or finds this._peerConnection null.  The remote*)
(* description taking effect on the connection is a step that leaves the   *)
(* operation in its stage; the candidates the engine gathered during a     *)
(* stage are in the buffer when the stage ends.                            *)
(*                                                                         *)
(* Opaque payloads (sdp, the candidates themselves, peer_id of an outbound *)
(* frame) are not represented.  Of _pendingCandidates and of the bundled   *)
(* remote candidates only emptiness is kept.  A connection the client has  *)
(* stopped referencing without closing it is noted by the step that does   *)
(* so; its later callbacks are not modelled.  _isOfferer is written but    *)
(* never read by the client and is left out.  The client is constructed    *)
(* without options.id.  The literal message the client tests for at line   *)
(* 325 is written "user_not_found".                                        *)
(***************************************************************************)
EXTENDS Naturals, Sequences, FiniteSets, Bags, TLC

\* ------------------------------------------------------------------ bounds
\* in-flight asynchronous operations (poll ticks, connect() and register() calls)
MaxTasks == 2

\* ------------------------------------------------------------------ values
NULL == "null"

\* identifiers the gateway may assign
Ids == {"u1"}
\* peers the application may connect to / offers may come from
Peers == {"p1"}

\* a match_list entry is a JSON object: its key/value pairs in the order the
\* response text lists them
E1 == << <<"id", "p1">>, <<"name", "Bob">> >>
E1r == << <<"name", "Bob">>, <<"id", "p1">> >>
MatchLists == { <<>>, <<E1>>, <<E1r>> }

\* next_status values of a successful response; 'wait_offer' is the one the
\* client itself tests for
NextStatuses == {"wait_offer", "wait_answer"}

VARIABLES
    status,             \* this.status
    id,                 \* this.id (selfId)
    peerId,             \* this.peerId
    peerName,           \* this.peerName
    matchList,          \* this.matchList
    isConnected,        \* this.isConnected
    pollingTimer,       \* this._pollingTimer is set (the interval is active)
    peerConnection,     \* this._peerConnection: "none" (null) or the connection
                        \* state of the referenced RTCPeerConnection
    dataChannel,        \* this._dataChannel is non-null
    pendingCandidates,  \* this._pendingCandidates is non-empty
    isProcessingSignal, \* this._isProcessingSignal
    tasks,              \* bag of suspended async operations
    log                 \* what the last step did, in order: operations entered
                        \* and left or rejected, handlers called, frames handed
                        \* to fetch, events emitted to the application's
                        \* listeners

vars == << status, id, peerId, peerName, matchList, isConnected, pollingTimer,
           peerConnection, dataChannel, pendingCandidates,
           isProcessingSignal, tasks, log >>

\* ------------------------------------------------- JSON helpers (pure)
RECURSIVE StringifyEntry(_, _)
\* JSON.stringify of one object, from its i-th pair on: keys in insertion order
StringifyEntry(e, i) ==
    IF i > Len(e) THEN << "}" >>
    ELSE (IF i = 1 THEN << "{" >> ELSE << "," >>)
         \o << e[i][1], ":", e[i][2] >> \o StringifyEntry(e, i + 1)

RECURSIVE StringifyFrom(_, _)
StringifyFrom(l, i) ==
    IF i > Len(l) THEN << "]" >>
    ELSE (IF i = 1 THEN <<>> ELSE << "," >>)
         \o StringifyEntry(l[i], 1) \o StringifyFrom(l, i + 1)

\* JSON.stringify(list), as a token sequence
Stringify(l) == << "[" >> \o StringifyFrom(l, 1)

\* structural equality of two lists of objects: same length, and position by
\* position the same key/value pairs whatever their order
StructEq(a, b) ==
    /\ Len(a) = Len(b)
    /\ \A i \in 1..Len(a) :
          {a[i][j] : j \in 1..Len(a[i])} = {b[i][j] : j \in 1..Len(b[i])}

\* obj[key], NULL when the object has no such key
Field(e, key) ==
    IF \E j \in 1..Len(e) : e[j][1] = key
    THEN e[CHOOSE j \in 1..Len(e) : e[j][1] = key][2]
    ELSE NULL

\* this.matchList.find(p => p.id === peer): index of the first match, 0 if none
FindPeer(l, peer) ==
    IF \E i \in 1..Len(l) : Field(l[i], "id") = peer
    THEN CHOOSE i \in 1..Len(l) :
            /\ Field(l[i], "id") = peer
            /\ \A k \in 1..(i - 1) : Field(l[k], "id") # peer
    ELSE 0

\* ------------------------------------------------- the client as a record
Cur ==
    [ status |-> status, id |-> id, peerId |-> peerId, peerName |-> peerName,
      matchList |-> matchList, isConnected |-> isConnected,
      pollingTimer |-> pollingTimer, peerConnection |-> peerConnection,
      dataChannel |-> dataChannel,
      pendingCandidates |-> pendingCandidates,
      isProcessingSignal |-> isProcessingSignal, log |-> <<>> ]

Commit(s) ==
    /\ status' = s.status
    /\ id' = s.id
    /\ peerId' = s.peerId
    /\ peerName' = s.peerName
    /\ matchList' = s.matchList
    /\ isConnected' = s.isConnected
    /\ pollingTimer' = s.pollingTimer
    /\ peerConnection' = s.peerConnection
    /\ dataChannel' = s.dataChannel
    /\ pendingCandidates' = s.pendingCandidates
    /\ isProcessingSignal' = s.isProcessingSignal
    /\ log' = s.log

Note(s, k, n, d) == [s EXCEPT !.log = Append(@, [k |-> k, n |-> n, d |-> d])]

\* EventEmitter.emit
Emit(s, n, d) == Note(s, "emit", n, d)

\* _apiCall: the frame handed to fetch; d is the frame's id field
ApiCall(s, n) == Note(s, "send", n, s.id)

\* entry of an operation, and its return or throw; d is the Processing Flag
\* at that point
Enter(s, n) == Note(s, "enter", n, s.isProcessingSignal)
Exit(s, n) == Note(s, "exit", n, s.isProcessingSignal)

\* operation n rejects to whoever awaits it
Throw(s, n) == Note(s, "throw", n, NULL)


\* ------------------------------------------------- gateway responses
\* one inbound frame, or a rejected fetch (t = "throw": TransportError).
\* An absent match_list and an empty one are treated alike by the client
\* (`response.match_list || []`, `response.match_list && ....length > 0`):
\* both are <<>> here.  cands: an ice frame bundles at least one candidate (the
\* candidates of an offer or answer frame are applied inside the engine stage).
Resp0 ==
    [ t |-> "resp", success |-> TRUE, next_status |-> NULL, message |-> NULL,
      id |-> NULL, type |-> NULL, match_list |-> <<>>, cands |-> FALSE,
      peer_id |-> NULL, peer_name |-> NULL ]

Thrown == [Resp0 EXCEPT !.t = "throw", !.success = FALSE]

\* success:false frames: the two reasons the client tests for, and any other
FailedResponses ==
    { [Resp0 EXCEPT !.success = FALSE, !.next_status = "register"],
      [Resp0 EXCEPT !.success = FALSE, !.message = "user_not_found"],
      [Resp0 EXCEPT !.success = FALSE, !.message = "other"] }

\* the gateway assigns an id to a client that holds none; it may omit the id
\* when answering a client that holds one
RegisterResponses(held) ==
    {Thrown} \cup FailedResponses \cup
    { [Resp0 EXCEPT !.id = i, !.next_status = n, !.match_list = m] :
        i \in Ids \cup (IF held = NULL THEN {} ELSE {NULL}),
        n \in NextStatuses, m \in MatchLists }

PollResponses ==
    {Thrown} \cup FailedResponses \cup
    { [Resp0 EXCEPT !.next_status = n, !.match_list = m] :
        n \in NextStatuses, m \in MatchLists } \cup
    { [Resp0 EXCEPT !.next_status = n, !.type = "offer", !.peer_id = p,
                    !.peer_name = pn] :
        n \in NextStatuses, p \in Peers, pn \in {NULL, "Bob"} } \cup
    { [Resp0 EXCEPT !.next_status = n, !.type = "answer"] :
        n \in NextStatuses } \cup
    { [Resp0 EXCEPT !.next_status = n, !.type = "ice", !.cands = c] :
        n \in NextStatuses, c \in BOOLEAN }

\* responses to a published offer / answer
SignalResponses ==
    {Thrown} \cup { [Resp0 EXCEPT !.success = FALSE, !.message = "other"] } \cup
    { [Resp0 EXCEPT !.next_status = n] : n \in NextStatuses }

\* ------------------------------------------------- suspended operations
\* kind: which async function is suspended; pc: the await it is suspended at;
\* ns: the polling response's next_status, held by _poll for its last
\* statement
Task(kind, pc, ns) == [kind |-> kind, pc |-> pc, ns |-> ns]

Done == Task("none", "done", NULL)

Out(s, t) == [s |-> s, t |-> t]

NegotiationStages == { "c_engine", "c_send", "ho_engine", "ho_send", "ha_engine" }

\* awaits on the Transport Engine (the gateway awaits are the *_send,
\* poll_wait, ar_register and reg_wait stages)
EngineStages == { "c_engine", "ho_engine", "ha_engine", "hi_addIce" }

\* stages that call setLocalDescription, which starts candidate gathering
GatheringStages == { "c_engine", "ho_engine" }

\* stages that begin with setRemoteDescription
RemoteStages == { "ho_engine", "ha_engine" }

\* connect, _handleOffer or _handleAnswer entered and not yet returned/thrown
NegotiationInFlight(b) == \E t \in BagToSet(b) : t.pc \in NegotiationStages

\* ------------------------------------------------- timer
\* variant: a _startPolling that sets no interval
PollingNotStarted(s) == s

StartPolling(s) == [s EXCEPT !.pollingTimer = TRUE]

StopPolling(s) == [s EXCEPT !.pollingTimer = FALSE]

\* ------------------------------------------------- register()
RegisterCall(s) == ApiCall(s, "register")

\* variant: a registration that ignores the id the gateway assigned
KeptId(cur, rid) == cur

RegisteredId(cur, rid) == IF rid # NULL THEN rid ELSE cur

RegisterSuccess(s, r) ==
    LET list == r.match_list
        s1 == [s EXCEPT !.id = RegisteredId(s.id, r.id),
                        !.status = r.next_status,
                        !.matchList = list]
        s2 == Emit(s1, "registered", s1.id)
        s3 == IF Len(list) > 0 THEN Emit(s2, "matchFound", list) ELSE s2
    IN StartPolling(s3)

\* variant: a register() that swallows its failure
FailsSilently(s) == s

RegisterFailure(s) == Throw(Emit(s, "error", NULL), "register")

RegisterReturn(s, r) ==
    IF r.t = "resp" /\ r.success THEN RegisterSuccess(s, r)
    ELSE RegisterFailure(s)

\* ------------------------------------------------- teardown of the transport
CloseTransport(s) ==
    [s EXCEPT !.dataChannel = FALSE, !.peerConnection = "none"]

\* _createPeerConnection: the previous connection, if any, is neither closed
\* nor remembered
CreatePeerConnection(s) ==
    [(IF s.peerConnection # "none" THEN Note(s, "call", "orphaned", NULL)
      ELSE s) EXCEPT !.peerConnection = "new", !.pendingCandidates = FALSE]

\* ------------------------------------------------- recovery
\* variant: a recovery that clears the peer fields and keeps the session
RecoveryKeepsSession(s) ==
    [s EXCEPT !.peerId = NULL, !.peerName = NULL, !.matchList = <<>>,
              !.pendingCandidates = FALSE, !.isProcessingSignal = FALSE]

HandleRecovery(s) ==
    [CloseTransport(s) EXCEPT !.peerId = NULL, !.peerName = NULL,
                              !.matchList = <<>>,
                              !.pendingCandidates = FALSE,
                              !.isConnected = FALSE,
                              !.isProcessingSignal = FALSE]

\* _handleReset.  No statement of the client calls it: it is part of no action.
HandleReset(s, r) ==
    Emit([StopPolling(CloseTransport(s)) EXCEPT
             !.peerId = NULL, !.peerName = NULL, !.matchList = <<>>,
             !.pendingCandidates = FALSE, !.isProcessingSignal = FALSE,
             !.status = "idle", !.id = NULL],
         "reset", << r.next_status, r.message >>)

\* _handleAutoReconnect up to the call of register(), whose request is sent
\* before it suspends
HandleAutoReconnect(s) ==
    LET s1 == [CloseTransport(s) EXCEPT !.id = NULL, !.peerId = NULL,
                                        !.peerName = NULL, !.matchList = <<>>,
                                        !.pendingCandidates = FALSE,
                                        !.isConnected = FALSE,
                                        !.isProcessingSignal = FALSE]
    IN RegisterCall(StopPolling(Note(s1, "call", "_handleAutoReconnect", NULL)))

\* register() returned to _handleAutoReconnect: a failure is reported again
ReRegisterReturn(s, r) ==
    Exit(IF r.t = "resp" /\ r.success THEN RegisterSuccess(s, r)
         ELSE Emit(RegisterFailure(s), "error", NULL),
         "_handleAutoReconnect")


\* ------------------------------------------------- connect()
\* connect(peer) up to its first suspension, at createOffer
ConnectStart(s, peer) ==
    LET s1 == [Enter(s, "connect") EXCEPT !.isProcessingSignal = TRUE,
                                          !.peerId = peer]
        i == FindPeer(s1.matchList, peer)
        s2 == IF i # 0
              THEN [s1 EXCEPT !.peerName = Field(s1.matchList[i], "name")]
              ELSE s1
    IN [CreatePeerConnection(s2) EXCEPT !.dataChannel = TRUE]

\* variant: a finally block that leaves the Processing Flag set
FlagKept == TRUE

\* the Processing Flag as the finally blocks of connect, _handleOffer and
\* _handleAnswer leave it
FlagReleased == FALSE

\* catch + finally of connect(): 'error' is emitted, the call rejects
ConnectFail(s) ==
    Exit([Throw(Emit(s, "error", NULL), "connect") EXCEPT
             !.isProcessingSignal = FlagReleased],
         "connect")

\* the offer was published: the gateway's answer to it
ConnectReturn(s, r) ==
    IF r.t = "resp" /\ r.success
    THEN Exit([s EXCEPT !.status = r.next_status,
                        !.pendingCandidates = FALSE,
                        !.isProcessingSignal = FlagReleased], "connect")
    ELSE ConnectFail(s)

\* ------------------------------------------------- _poll, last statement
\* variant: a tick that adopts next_status whatever the held status
AdoptStatusAlways(st, ns) == ns

\* status-overwrite suppression
AdoptStatus(st, ns) == IF st # "connected" THEN ns ELSE st

FinishPoll(s, ns) == Out([s EXCEPT !.status = AdoptStatus(s.status, ns)], Done)

\* ------------------------------------------------- _handleOffer
\* catch + finally of _handleOffer, then the catch of _poll, which swallows
OfferFail(s) ==
    Out(Exit([Throw(s, "_handleOffer") EXCEPT
                 !.isProcessingSignal = FlagReleased], "_handleOffer"),
        Done)

\* _handleOffer up to its first suspension, at setRemoteDescription
HandleOfferStart(s, r) ==
    LET s1 == [Enter(s, "_handleOffer") EXCEPT
                  !.isProcessingSignal = TRUE,
                  !.peerId = r.peer_id,
                  !.peerName = IF r.peer_name # NULL THEN r.peer_name ELSE ""]
    IN Out(CreatePeerConnection(Emit(s1, "offer", r.peer_id)),
           Task("poll", "ho_engine", r.next_status))

\* the answer was published: its response is only logged by the code
HandleOfferReturn(s, t, r) ==
    IF r.t = "throw" THEN OfferFail(s)
    ELSE FinishPoll(Exit([s EXCEPT !.pendingCandidates = FALSE,
                                   !.isProcessingSignal = FlagReleased],
                         "_handleOffer"), t.ns)

\* ------------------------------------------------- _handleAnswer
AnswerFail(s) ==
    Out(Exit([Throw(s, "_handleAnswer") EXCEPT
                 !.isProcessingSignal = FlagReleased], "_handleAnswer"),
        Done)

HandleAnswerStart(s, r) ==
    LET s1 == [Enter(s, "_handleAnswer") EXCEPT !.isProcessingSignal = TRUE]
    IN IF s1.peerConnection = "none"
       THEN AnswerFail(s1)
       ELSE Out(s1, Task("poll", "ha_engine", r.next_status))

HandleAnswerDone(s, ns) ==
    FinishPoll(Exit([s EXCEPT !.isProcessingSignal = FlagReleased],
                    "_handleAnswer"), ns)

\* ------------------------------------------------- _handleIce
HandleIceStart(s, r) ==
    LET s1 == Enter(s, "_handleIce")
    IN IF r.cands /\ s1.peerConnection # "none"
       THEN Out(s1, Task("poll", "hi_addIce", r.next_status))
       ELSE FinishPoll(Exit(s1, "_handleIce"), r.next_status)


\* ------------------------------------------------- resuming after an engine await
\* variant: an exception in a suspended operation that also clears the timer
FailStoppingTimer(s, t) == Out(StopPolling(s), Done)

\* an exception thrown in the operation suspended at t.pc
Fail(s, t) ==
    IF t.kind = "connect" THEN Out(ConnectFail(s), Done)
    ELSE IF t.pc = "ho_engine" THEN OfferFail(s)
    ELSE IF t.pc = "ha_engine" THEN AnswerFail(s)
    ELSE Out(Exit(s, "_handleIce"), Done)

\* setRemoteDescription resolved: the referenced connection can now connect
SetRemoteApplied(s) ==
    [s EXCEPT !.peerConnection = IF @ = "new" THEN "remote" ELSE @]

\* onicecandidate, fired while the stage was gathering: the candidates are
\* pushed onto the shared buffer (gathered: there was at least one)
Gathered(s, gathered) ==
    [s EXCEPT !.pendingCandidates = @ \/ gathered]

\* the last await of stage t.pc resolved: run to the next suspension or to
\* the end of the operation.  Every engine call goes through
\* this._peerConnection: a TypeError when the reference has been nulled
Advance(s, t, gathered) ==
    CASE t.pc = "c_engine" ->
           IF s.peerConnection = "none" THEN Fail(s, t)
           ELSE Out(ApiCall(Gathered(s, gathered), "offer"),
                    [t EXCEPT !.pc = "c_send"])
      [] t.pc = "ho_engine" ->
           IF s.peerConnection = "none" THEN Fail(s, t)
           ELSE Out(ApiCall(Gathered(SetRemoteApplied(s), gathered), "answer"),
                    [t EXCEPT !.pc = "ho_send"])
      [] t.pc = "ha_engine" -> HandleAnswerDone(SetRemoteApplied(s), t.ns)
      [] t.pc = "hi_addIce" -> FinishPoll(Exit(s, "_handleIce"), t.ns)

\* ------------------------------------------------- _poll, after its request
NeedsReRegister(r) ==
    r.next_status = "register" \/ r.message = "user_not_found"

\* variant: a tick that never sees an anomaly
NoAnomaly(s, r) == FALSE

\* the anomaly test of a polling tick
Anomaly(s, r) ==
    r.next_status = "wait_offer" /\ s.peerId # NULL /\ ~s.isProcessingSignal

\* JSON.stringify(this.matchList) !== JSON.stringify(response.match_list)
MatchListChanged(held, list) == Stringify(held) # Stringify(list)

UpdateMatchList(s, r) ==
    IF Len(r.match_list) > 0 /\ MatchListChanged(s.matchList, r.match_list)
    THEN Emit([s EXCEPT !.matchList = r.match_list], "matchFound", r.match_list)
    ELSE s

\* routing by response.type
Route(s, r) ==
    CASE r.type = "offer" -> HandleOfferStart(s, r)
      [] r.type = "answer" -> HandleAnswerStart(s, r)
      [] r.type = "ice" -> HandleIceStart(s, r)
      [] OTHER -> FinishPoll(UpdateMatchList(s, r), r.next_status)

\* the polling request settled with r (the note of the call of
\* _handleRecovery records the connection it finds)
PollReturn(s, r) ==
    IF r.t = "throw" THEN Out(s, Done)
    ELSE IF ~r.success
    THEN IF NeedsReRegister(r)
         THEN Out(HandleAutoReconnect(s), Task("poll", "ar_register", NULL))
         ELSE Out(s, Done)
    ELSE IF Anomaly(s, r)
    THEN Route(HandleRecovery(Note(s, "call", "_handleRecovery",
                                   s.peerConnection)), r)
    ELSE Route(s, r)

\* ------------------------------------------------- disconnect()
DisconnectBody(s) ==
    LET s1 == [CloseTransport(StopPolling(Enter(s, "disconnect"))) EXCEPT
                  !.status = "disconnected", !.isConnected = FALSE,
                  !.peerId = NULL, !.peerName = NULL,
                  !.isProcessingSignal = FALSE]
    IN Exit(Emit(s1, "disconnected", "user"), "disconnect")

\* ------------------------------------------------- onconnectionstatechange
\* the handler reads the state of whatever this._peerConnection references
\* when it runs
OnConnectionStateChange(s) ==
    IF s.peerConnection = "connected"
    THEN Emit(ApiCall(StopPolling([s EXCEPT !.isConnected = TRUE,
                                            !.status = "connected"]),
                      "notify"),
              "connected", s.peerId)
    ELSE IF s.peerConnection \in {"disconnected", "failed"}
    THEN Emit([s EXCEPT !.isConnected = FALSE], "disconnected",
              s.peerConnection)
    ELSE s


\* ------------------------------------------------- initial state (constructor)
Init ==
    /\ status = "idle"
    /\ id = NULL
    /\ peerId = NULL
    /\ peerName = NULL
    /\ matchList = <<>>
    /\ isConnected = FALSE
    /\ pollingTimer = FALSE
    /\ peerConnection = "none"
    /\ dataChannel = FALSE
    /\ pendingCandidates = FALSE
    /\ isProcessingSignal = FALSE
    /\ tasks = EmptyBag
    /\ log = <<>>

\* ------------------------------------------------- actions
Spawn(t) ==
    /\ BagCardinality(tasks) < MaxTasks
    /\ tasks' = tasks (+) SetToBag({t})

\* task t ran to out.t (Done: it ended)
Step(t, out) ==
    /\ Commit(out.s)
    /\ tasks' = IF out.t = Done THEN tasks (-) SetToBag({t})
                ELSE (tasks (-) SetToBag({t})) (+) SetToBag({out.t})

\* the application calls register()
Register ==
    /\ Commit(RegisterCall(Enter(Cur, "register")))
    /\ Spawn(Task("register", "reg_wait", NULL))

\* the registration request of a register() call settles
RegisterResponse ==
    \E t \in BagToSet(tasks), r \in RegisterResponses(id) :
        /\ t.pc = "reg_wait"
        /\ Step(t, Out(RegisterReturn(Cur, r), Done))

\* the application calls connect(peer)
Connect ==
    \E peer \in Peers :
        /\ Commit(ConnectStart(Cur, peer))
        /\ Spawn(Task("connect", "c_engine", NULL))

\* the application calls disconnect()
Disconnect ==
    /\ Commit(DisconnectBody(Cur))
    /\ UNCHANGED tasks

\* the interval timer fires: _poll runs up to its request
Tick ==
    /\ pollingTimer
    /\ Commit(ApiCall(Cur, "polling"))
    /\ Spawn(Task("poll", "poll_wait", NULL))

\* a polling request settles: the rest of the tick up to its next suspension
PollResponse ==
    \E t \in BagToSet(tasks), r \in PollResponses :
        /\ t.pc = "poll_wait"
        /\ Step(t, PollReturn(Cur, r))

\* the re-registration started by _handleAutoReconnect settles
ReRegisterResponse ==
    \E t \in BagToSet(tasks), r \in RegisterResponses(id) :
        /\ t.pc = "ar_register"
        /\ Step(t, Out(ReRegisterReturn(Cur, r), Done))

\* the Transport Engine stage of a suspended operation ends: its last
\* promise resolved (ok), or one of its promises rejected (~ok)
EngineResume ==
    \E t \in BagToSet(tasks), ok \in BOOLEAN, gathered \in BOOLEAN :
        /\ t.pc \in EngineStages
        /\ gathered => ok /\ t.pc \in GatheringStages
        /\ Step(t, IF ok THEN Advance(Cur, t, gathered) ELSE Fail(Cur, t))

\* setRemoteDescription of a suspended _handleOffer / _handleAnswer resolved
\* while later engine calls of the same stage are still outstanding
RemoteDescriptionSet ==
    /\ \E t \in BagToSet(tasks) : t.pc \in RemoteStages
    /\ peerConnection = "new"
    /\ Commit(SetRemoteApplied(Cur))
    /\ UNCHANGED tasks

\* the request publishing connect()'s offer settles
OfferResponse ==
    \E t \in BagToSet(tasks), r \in SignalResponses :
        /\ t.pc = "c_send"
        /\ Step(t, Out(ConnectReturn(Cur, r), Done))

\* the request publishing _handleOffer's answer settles
AnswerResponse ==
    \E t \in BagToSet(tasks), r \in SignalResponses :
        /\ t.pc = "ho_send"
        /\ Step(t, HandleOfferReturn(Cur, t, r))

\* ondatachannel: the remote peer's channel is announced once the transport
\* is up
DataChannelEvent ==
    /\ peerConnection = "connected"
    /\ ~dataChannel
    /\ Commit([Cur EXCEPT !.dataChannel = TRUE])
    /\ UNCHANGED tasks

\* the referenced connection changes its connectionState and fires the handler
ConnectionStateChange ==
    \E st \in {"connected", "disconnected", "failed"} :
        /\ \/ st = "connected" /\ peerConnection \in {"remote", "disconnected"}
           \/ st = "disconnected" /\ peerConnection = "connected"
           \/ st = "failed" /\ peerConnection \in {"remote", "connected", "disconnected"}
        /\ Commit(OnConnectionStateChange([Cur EXCEPT !.peerConnection = st]))
        /\ UNCHANGED tasks

Next ==
    \/ Register
    \/ RegisterResponse
    \/ Connect
    \/ Disconnect
    \/ Tick
    \/ PollResponse
    \/ ReRegisterResponse
    \/ EngineResume
    \/ RemoteDescriptionSet
    \/ OfferResponse
    \/ AnswerResponse
    \/ DataChannelEvent
    \/ ConnectionStateChange

Spec == Init /\ [][Next]_vars

\* ------------------------------------------------- vocabulary of the properties
\* the suspended operations of one kind
KindBag(b, k) == [t \in {x \in BagToSet(b) : x.kind = k} |-> b[t]]

\* the step starts, resumes or ends a polling tick (_poll and whatever it
\* awaits: _handleOffer, _handleAnswer, _handleIce, _handleAutoReconnect)
PollStep == KindBag(tasks, "poll") # KindBag(tasks', "poll")

\* the notes of kind k about n among l
Notes(l, k, n) == SelectSeq(l, LAMBDA e : e.k = k /\ e.n = n)

\* the step that wrote l emitted event n / called handler n / sent frame n
Emitted(l, n) == Notes(l, "emit", n) # <<>>
Called(l, n) == Notes(l, "call", n) # <<>>
Sent(l, n) == Notes(l, "send", n) # <<>>
Threw(l, n) == Notes(l, "throw", n) # <<>>

\* the operations suspended at pc
At(pc) == { t \in BagToSet(tasks) : t.pc = pc }

\* the step is the suspended tick t processing the response r, up to the
\* tick's end or next suspension
TickProcesses(t, r) ==
    /\ t.pc = "poll_wait"
    /\ Step(t, PollReturn(Cur, r))

\* ... through the anomaly branch (_handleRecovery)
RecoveryTick(t, r) ==
    /\ r.t = "resp" /\ r.success
    /\ Anomaly(Cur, r)
    /\ TickProcesses(t, r)

\* ------------------------------------------------- C1
\* C1, as stated: once status is 'connected', no step of a polling tick,
\* whatever the response it processes, leaves status at another value.
C1_ConnectedNeverDowngraded ==
    [][status = "connected" /\ PollStep => status' = "connected"]_vars

\* C1, amended: once status is 'connected', a step of a polling tick leaves it
\* 'connected' unless the step is the successful end of the re-registration
\* that a failed polling response started (_handleAutoReconnect -> register(),
\* which assigns status = next_status unconditionally and emits 'registered').
C1_ConnectedKeptExceptReRegistration ==
    [][status = "connected" /\ PollStep /\ ~Emitted(log', "registered")
          => status' = "connected"]_vars

\* a tick has just taken over a new match list (so its response was
\* successful and carried a next_status other than 'connected') and status
\* is still 'connected'
C1_Witness == status = "connected" /\ Emitted(log, "matchFound")

\* ------------------------------------------------- C2
\* C2, as stated: the anomaly branch of a polling tick is never taken while a
\* connect, _handleOffer or _handleAnswer has been entered and has not yet
\* returned or thrown.
C2_NoRecoveryDuringNegotiation ==
    [][NegotiationInFlight(tasks) =>
          \A t \in At("poll_wait"), r \in PollResponses :
              ~RecoveryTick(t, r)]_vars

\* ------------------------------------------------- C3
\* the Negotiation Controller operations, and those of them that write the
\* Processing Flag
NegotiationOps ==
    { "connect", "_handleOffer", "_handleAnswer", "_handleIce", "disconnect" }
FlagWritingOps == NegotiationOps \ { "_handleIce" }

\* the entries and exits of the operations ops that l records with the
\* Processing Flag set
FlagSetAround(l, ops) ==
    { i \in 1..Len(l) : /\ l[i].k \in {"enter", "exit"}
                        /\ l[i].n \in ops
                        /\ l[i].d = TRUE }

\* C3, as stated: the Processing Flag is false immediately before and
\* immediately after every connect, _handleOffer, _handleAnswer, _handleIce
\* and disconnect, on every exit path.
C3_FlagFalseBeforeAndAfter == FlagSetAround(log, NegotiationOps) = {}

\* C3, amended: the flag is false immediately after every connect,
\* _handleOffer, _handleAnswer and disconnect, on every exit path; the flag
\* is set only while one of connect, _handleOffer, _handleAnswer is in
\* flight; so an operation finds it set on entry, and _handleIce leaves it
\* set, only in a step taken while such an operation was in flight.
C3_FlagReleasedOnExit ==
    /\ [](\A i \in FlagSetAround(log, FlagWritingOps) : log[i].k = "enter")
    /\ [](isProcessingSignal => NegotiationInFlight(tasks))
    /\ [][FlagSetAround(log', NegotiationOps) # {}
             => NegotiationInFlight(tasks)]_vars

\* connect() has just failed (an engine rejection, a TransportError or an
\* unsuccessful response to its offer) while another negotiation is still in
\* flight, and the flag is false
C3_Witness ==
    /\ Notes(log, "exit", "connect") # <<>>
    /\ Emitted(log, "error")
    /\ NegotiationInFlight(tasks)
    /\ ~isProcessingSignal

\* ------------------------------------------------- C4
\* the last step was a call of disconnect()
JustDisconnected == Notes(log, "exit", "disconnect") # <<>>

\* C4, as stated: calling disconnect() right after disconnect() leaves the
\* state the first call left and emits no second 'disconnected' event.
C4_DisconnectIdempotent ==
    JustDisconnected =>
        LET again == DisconnectBody(Cur)
        IN /\ [again EXCEPT !.log = <<>>] = Cur
           /\ ~Emitted(again.log, "disconnected")

\* ------------------------------------------------- C5
\* the step is the settling of a gateway request that a polling tick or a
\* connect() call had in flight
RequestSettles ==
    \E t \in BagToSet(tasks) :
        /\ t.pc \in {"poll_wait", "c_send"}
        /\ CopiesIn(t, tasks') < CopiesIn(t, tasks)

\* C5, as stated: when a request of a polling tick or of connect() settles
\* right after disconnect() (the caller has invoked nothing since), its
\* result is discarded: status stays 'disconnected', peerId and peerName stay
\* null, no peer connection is created, no registration is started and the
\* polling timer stays stopped.
C5_ResultDiscardedAfterDisconnect ==
    [][JustDisconnected /\ RequestSettles
          => /\ status' = "disconnected"
             /\ peerId' = NULL /\ peerName' = NULL
             /\ peerConnection' = "none"
             /\ ~Sent(log', "register")
             /\ ~pollingTimer']_vars

\* ------------------------------------------------- C6
\* the step clears an active polling timer
TimerStops == pollingTimer /\ ~pollingTimer'

\* C6, as stated: the polling timer becomes inactive only through an explicit
\* disconnect() or a hard reset (_handleReset, which nothing calls: no step
\* of the client is a hard reset).
C6_TimerStopsOnlyOnDisconnect ==
    [][TimerStops => Notes(log', "exit", "disconnect") # <<>>]_vars

\* C6, amended: the polling timer becomes inactive only through disconnect(),
\* through the connection-state handler seeing 'connected', or through
\* _handleAutoReconnect (a failed polling response that asks for
\* re-registration); no exception inside a tick, no other response, no soft
\* recovery and no other connection-state change stops it.
C6_TimerStopsOnlyOnDisconnectConnectedReRegister ==
    [][TimerStops => \/ Notes(log', "exit", "disconnect") # <<>>
                     \/ Emitted(log', "connected")
                     \/ Called(log', "_handleAutoReconnect")]_vars

\* a tick has just gone through soft recovery and the timer is still active
C6_Witness == pollingTimer /\ Called(log, "_handleRecovery")

\* ------------------------------------------------- C7
\* successful responses whose next_status is the pre-negotiation waiting state
WaitOfferResponses ==
    { r \in PollResponses :
        r.t = "resp" /\ r.success /\ r.next_status = "wait_offer" }

\* peerId is set and the Processing Flag is false
SoftRecoverCase == peerId # NULL /\ ~isProcessingSignal

\* after the step: peer fields null, connection and channel released, buffer
\* empty
PeerCleared ==
    /\ peerId' = NULL /\ peerName' = NULL
    /\ peerConnection' = "none" /\ ~dataChannel'
    /\ ~pendingCandidates'

\* after the step: selfId and the timer as they were, no registration sent
SessionKept ==
    /\ id' = id
    /\ pollingTimer' = pollingTimer
    /\ ~Sent(log', "register")

\* C7, as stated: a tick that receives such a response leaves peerId and
\* peerName null, connection and channel released and the candidate buffer
\* empty, with selfId and the timer unchanged and no registration call.
C7_SoftRecoverClearsPeer ==
    [][SoftRecoverCase =>
          \A t \in At("poll_wait"), r \in WaitOfferResponses :
              TickProcesses(t, r) => PeerCleared /\ SessionKept]_vars

\* C7, amended: such a tick keeps selfId and the timer and sends no
\* registration; it leaves the peer fields null, connection and channel
\* released and the buffer empty unless the same response is of type 'offer':
\* then _handleOffer runs in the same tick after the recovery, and the tick
\* suspends with peerId the offer's peer_id and a new connection that has no
\* channel and an empty buffer.
C7_SoftRecoverClearsPeerUnlessOffer ==
    [][SoftRecoverCase =>
          \A t \in At("poll_wait"), r \in WaitOfferResponses :
              TickProcesses(t, r)
                  => /\ SessionKept
                     /\ r.type # "offer" => PeerCleared
                     /\ r.type = "offer" =>
                            /\ peerId' = r.peer_id
                            /\ peerConnection' = "new"
                            /\ ~dataChannel' /\ ~pendingCandidates']_vars

\* soft recovery has just run in a tick that then ended: peer fields are
\* null, the timer is active and selfId is held
C7_Witness ==
    /\ Called(log, "_handleRecovery")
    /\ peerId = NULL /\ peerConnection = "none"
    /\ pollingTimer /\ id # NULL

\* ------------------------------------------------- C8
\* failed responses whose reason is 'user not found' or that instruct a
\* return to registering
ReRegisterResponses ==
    { r \in PollResponses :
        /\ r.t = "resp" /\ ~r.success
        /\ r.message = "user_not_found" \/ r.next_status = "register" }

\* the step is the settling, with r, of the registration that the suspended
\* tick t started through _handleAutoReconnect
ReRegistrationSettles(t, r) ==
    /\ t.pc = "ar_register"
    /\ Step(t, Out(ReRegisterReturn(Cur, r), Done))

\* C8: a tick that receives such a response clears selfId, stops the timer
\* and sends one registration frame (carrying no id) in the same step, with
\* no 'error' event; when that registration settles, 'error' is emitted
\* exactly if it failed, and if it succeeded the timer is active and selfId is
\* the id the gateway assigned.
C8_AutoReconnect ==
    /\ [][\A t \in At("poll_wait"), r \in ReRegisterResponses :
              TickProcesses(t, r)
                  => /\ id' = NULL
                     /\ ~pollingTimer'
                     /\ Len(Notes(log', "send", "register")) = 1
                     /\ Notes(log', "send", "register")[1].d = NULL
                     /\ ~Emitted(log', "error")]_vars
    /\ [][\A t \in At("ar_register"), r \in RegisterResponses(id) :
              ReRegistrationSettles(t, r)
                  => IF r.t = "resp" /\ r.success
                     THEN /\ ~Emitted(log', "error")
                          /\ pollingTimer'
                          /\ id' # NULL
                          /\ r.id # NULL => id' = r.id
                     ELSE /\ Emitted(log', "error")
                          /\ id' = id
                          /\ pollingTimer' = pollingTimer]_vars

\* the re-registration started by _handleAutoReconnect has just succeeded:
\* the timer is active again and selfId is assigned
C8_Witness ==
    /\ Notes(log, "exit", "_handleAutoReconnect") # <<>>
    /\ Emitted(log, "registered")
    /\ pollingTimer
    /\ id # NULL

\* ------------------------------------------------- C9
\* successful responses that carry no offer/answer/ice type
UntypedResponses ==
    { r \in PollResponses : r.t = "resp" /\ r.success /\ r.type = NULL }

\* C9, as stated, for the ticks that do not go through soft recovery (so that
\* the list held when the response arrives is the list compared): such a
\* response makes the tick emit 'matchFound' exactly when its list is
\* non-empty and not structurally equal to the held matchList, and then the
\* payload and the held list are the received list.
C9_MatchFoundIffStructurallyNew ==
    [][\A t \in At("poll_wait"), r \in UntypedResponses :
          ~Anomaly(Cur, r) /\ TickProcesses(t, r)
              => /\ Emitted(log', "matchFound")
                        <=> /\ Len(r.match_list) > 0
                            /\ ~StructEq(matchList, r.match_list)
                 /\ Emitted(log', "matchFound")
                        => /\ Notes(log', "emit", "matchFound")[1].d
                                = r.match_list
                           /\ matchList' = r.match_list]_vars

\* ------------------------------------------------- C10
\* the statuses that stand for a negotiation under way: 'negotiating', which
\* the client never assigns by itself, and the gateway's next_status for a
\* client whose offer is out
NegotiatingStatuses == { "negotiating", "wait_answer" }

\* C10, as stated: in every reachable state peerId is non-null if and only if
\* status is 'negotiating' or 'connected'.
C10_PeerIdIffNegotiatingOrConnected ==
    peerId # NULL <=> status \in NegotiatingStatuses \cup {"connected"}

\* ------------------------------------------------- C11
\* the frames other than registration frames among the notes l
SignalFrames(l) ==
    SelectSeq(l, LAMBDA e : e.k = "send" /\ e.n # "register")

\* C11, as stated: every offer, answer, polling and post-connect notification
\* frame handed to fetch carries a non-empty selfId.
C11_FramesCarrySelfId ==
    \A i \in 1..Len(SignalFrames(log)) : SignalFrames(log)[i].d # NULL

\* ------------------------------------------------- C12
\* the step is the settling, with r, of the registration request of the
\* register() call t
RegistrationSettles(t, r) ==
    /\ t.pc = "reg_wait"
    /\ Step(t, Out(RegisterReturn(Cur, r), Done))

\* what a registration answered with the successful response r leaves
RegisteredWith(r) ==
    /\ status' = r.next_status
    /\ id' = (IF r.id # NULL THEN r.id ELSE id)
    /\ matchList' = r.match_list
    /\ Len(Notes(log', "emit", "registered")) = 1
    /\ Notes(log', "emit", "registered")[1].d = id'
    /\ Emitted(log', "matchFound") <=> Len(r.match_list) > 0
    /\ Emitted(log', "matchFound")
          => Notes(log', "emit", "matchFound")[1].d = r.match_list
    /\ pollingTimer'

\* C12: when the gateway answers a register() call (the caller's, or the one
\* _handleAutoReconnect makes) with success, status becomes the response's
\* next_status, selfId the returned id when one is returned, matchList the
\* returned list, exactly one 'registered' event carrying the id is emitted,
\* 'matchFound' is emitted exactly if the list is non-empty, and the polling
\* timer is active.
C12_SuccessfulRegistration ==
    [][\A t \in At("reg_wait") \cup At("ar_register") :
          \A r \in { x \in RegisterResponses(id) : x.t = "resp" /\ x.success } :
              RegistrationSettles(t, r) \/ ReRegistrationSettles(t, r)
                  => RegisteredWith(r)]_vars

\* a registration has just succeeded with a non-empty list: both events were
\* emitted, the list and the id are held and the timer is active
C12_Witness ==
    /\ Emitted(log, "registered")
    /\ Emitted(log, "matchFound")
    /\ matchList # <<>>
    /\ id # NULL
    /\ status \in NextStatuses
    /\ pollingTimer

\* ------------------------------------------------- C13
\* the step is the settling, with r, of the request that published the offer
\* of the connect() call t
OfferSettles(t, r) ==
    /\ t.pc = "c_send"
    /\ Step(t, Out(ConnectReturn(Cur, r), Done))

\* the step is the Transport Engine failing the connect() call t: a promise
\* of its stage rejects, or the stage finds this._peerConnection null
ConnectEngineFails(t) ==
    /\ t.pc = "c_engine"
    /\ \/ Step(t, Fail(Cur, t))
       \/ peerConnection = "none" /\ Step(t, Advance(Cur, t, FALSE))

\* a TransportError, or a response with success:false
Failing(r) == r.t = "throw" \/ ~r.success

\* C13: when register() or connect() meets a transport error, a Transport
\* Engine failure or a response with success:false, the call rejects and an
\* 'error' event is emitted; a failed register() leaves the polling timer as
\* it was (it does not start it).
C13_UserOperationFailure ==
    /\ [][\A t \in At("reg_wait") :
              \A r \in { x \in RegisterResponses(id) : Failing(x) } :
                  RegistrationSettles(t, r)
                      => /\ Emitted(log', "error")
                         /\ Threw(log', "register")
                         /\ pollingTimer' = pollingTimer]_vars
    /\ [][\A t \in At("c_send") :
              \A r \in { x \in SignalResponses : Failing(x) } :
                  OfferSettles(t, r)
                      => Emitted(log', "error") /\ Threw(log', "connect")]_vars
    /\ [][\A t \in At("c_engine") :
              ConnectEngineFails(t)
                  => Emitted(log', "error") /\ Threw(log', "connect")]_vars

\* a register() call has just failed on a client whose timer is not active:
\* 'error' was emitted, the call rejected and the timer is still inactive
C13_Witness ==
    /\ Threw(log, "register")
    /\ Notes(log, "exit", "_handleAutoReconnect") = <<>>
    /\ Emitted(log, "error")
    /\ ~pollingTimer

\* ------------------------------------------------- C14
\* C14, as stated: a step in which _handleOffer fails inside a polling tick
\* (a Transport Engine failure, or the answer request rejecting) emits an
\* 'error' event, leaves an active polling timer active and leaves the
\* Processing Flag false.
C14_OfferFailureReported ==
    [][Threw(log', "_handleOffer")
          => /\ Emitted(log', "error")
             /\ pollingTimer => pollingTimer'
             /\ ~isProcessingSignal']_vars

\* ------------------------------------------------- C15
\* responses that mandate a full session restart: failed ones that send the
\* client back to registering
RestartResponses ==
    { r \in PollResponses :
        r.t = "resp" /\ ~r.success /\ r.next_status = "register" }

\* C15, as stated: a tick that receives such a response performs the hard
\* reset (which has no suspension point, so within the step): a 'reset' event
\* carrying the server's target status and message is emitted, selfId and the
\* peer fields are cleared, status is 'idle', the peer connection is
\* released, the timer is stopped and no registration is sent.
C15_HardResetOnRestart ==
    [][\A t \in At("poll_wait"), r \in RestartResponses :
          TickProcesses(t, r)
              => /\ Notes(log', "emit", "reset")
                        = << [k |-> "emit", n |-> "reset",
                              d |-> << r.next_status, r.message >>] >>
                 /\ id' = NULL /\ status' = "idle"
                 /\ peerId' = NULL /\ peerName' = NULL
                 /\ peerConnection' = "none"
                 /\ ~pollingTimer'
                 /\ ~Sent(log', "register")]_vars

\* ------------------------------------------------- C16
\* C16, as stated: when the registration sent by _handleAutoReconnect fails,
\* 'error' is emitted and the client is idle: status is 'idle', selfId and
\* the peer fields are cleared, the timer is inactive and no registration is
\* sent by the step.
C16_FailedAutoReconnectLeavesIdle ==
    [][\A t \in At("ar_register") :
          \A r \in { x \in RegisterResponses(id) : Failing(x) } :
              ReRegistrationSettles(t, r)
                  => /\ Emitted(log', "error")
                     /\ status' = "idle"
                     /\ id' = NULL
                     /\ peerId' = NULL /\ peerName' = NULL
                     /\ ~pollingTimer'
                     /\ ~Sent(log', "register")]_vars

\* ------------------------------------------------- C17
\* the Transport Engine has reported 'connected' and nothing has changed
\* since: status 'connected', isConnected true, the session established
Established ==
    status = "connected" /\ isConnected /\ peerConnection = "connected"

\* C17: a polling response that arrives after the Transport Engine reported
\* 'connected' (the request was sent before the timer was stopped), whose
\* next_status is 'wait_offer' and which carries no signal, is classified as
\* an anomaly: _handleRecovery runs, the session is closed, isConnected and
\* the peer identity are cleared, and status is still 'connected'.  Such a
\* step is reachable (C17_Witness).
C17_PostConnectRecovery ==
    [][Established /\ SoftRecoverCase =>
          \A t \in At("poll_wait"), r \in WaitOfferResponses :
              TickProcesses(t, r) /\ r.type = NULL
                  => /\ Called(log', "_handleRecovery")
                     /\ status' = "connected"
                     /\ ~isConnected'
                     /\ peerId' = NULL /\ peerName' = NULL
                     /\ peerConnection' = "none" /\ ~dataChannel']_vars

\* _handleRecovery has just closed an established session: status is still
\* 'connected' while the session, isConnected and the peer identity are gone
C17_Witness ==
    /\ status = "connected"
    /\ ~isConnected
    /\ peerId = NULL /\ peerName = NULL
    /\ peerConnection = "none"
    /\ \E i \in 1..Len(log) :
           log[i] = [k |-> "call", n |-> "_handleRecovery", d |-> "connected"]

\* ------------------------------------------------- C18
\* the suspended calls of connect, _handleOffer and _handleAnswer
InFlightNegotiations ==
    { t \in BagToSet(tasks) : t.pc \in NegotiationStages }

\* C18, as stated: at most one of connect, _handleOffer and _handleAnswer is
\* between entry and exit at any time.
C18_AtMostOneNegotiation ==
    /\ Cardinality(InFlightNegotiations) <= 1
    /\ \A t \in InFlightNegotiations : CopiesIn(t, tasks) = 1

\* ------------------------------------------------- C19
\* C19, as stated: no step replaces the reference to a connection that is
\* still open without closing it, so that the only open connection is the
\* one the client references.
C19_NoOrphanedSession == ~Called(log, "orphaned")

\* ------------------------------------------------- C20
\* C20, as stated: in every reachable state, isConnected true implies that
\* status is 'connected' and that the client holds a peer connection.
C20_IndicatorsAgree ==
    isConnected => status = "connected" /\ peerConnection # "none"

=============================================================================
